---- MODULE Spec2Model ----
(***************************************************************************)
(* State-machine model of sf_restcalls.SnowflakeClient                     *)
(* (src/sf_restcalls/snowflake_client.py): one client object driven by an  *)
(* arbitrary caller, on top of an opaque driver (snowflake.connector)      *)
(* whose outcomes are chosen nondeterministically; and of the command-line *)
(* entry point (src/sf_restcalls/cli.py), which drives one such client     *)
(* through `with client:` (specification SpecCLI).                         *)
(*                                                                         *)
(* Text (messages, statements, log lines) is a sequence of tokens; an      *)
(* f-string is the concatenation of its literal parts and inserted values. *)
(* Driver calls the code wraps in try/except may raise; connection.close() *)
(* and connection.is_closed(), which the code calls bare, return normally. *)
(***************************************************************************)
EXTENDS Integers, Sequences, FiniteSets, TLC

VARIABLES
    config,       \* account/username/token/warehouse/database/schema/role given to __init__
    connection,   \* self.connection: NoHandle (None) or the id of a native connection
    opened,       \* native connections the driver has handed out to this session
    closed,       \* native connections whose transport is closed (close() or dropped)
    scope,        \* "outside" or "body": position of the caller relative to `with client:`
    lastOp,       \* the most recent operation
    lastInput,    \* its arguments and the driver outcome it met
    lastInvoked,  \* the client's own methods it called, in order
    lastCalls,    \* the driver calls it made, in order
    lastLog,      \* the log lines it emitted, in order
    lastError,    \* the exception kind it raised to the caller ("None" when it returned)
    lastMessage,  \* the message of that exception
    lastResult,   \* what it returned
    cli           \* the command-line run around the client (cli.py main): its
                  \* environment, arguments, position and what it has produced

vars == <<config, connection, opened, closed, scope, lastOp, lastInput,
          lastInvoked, lastCalls, lastLog, lastError, lastMessage, lastResult,
          cli>>

----------------------------------------------------------------------------
(* Bounds *)

MaxHandles == 2      \* native connections the driver hands out in one run
MaxParams  == 2      \* longest parameter list passed to call_stored_procedure

----------------------------------------------------------------------------
(* Generic helpers *)

NoHandle == 0

Range(s) == {s[i] : i \in 1..Len(s)}

Min(a, b) == IF a <= b THEN a ELSE b

\* sub occurs in s as a contiguous run of tokens
Contains(s, sub) ==
    \E i \in 0..(Len(s) - Len(sub)) :
        \A j \in 1..Len(sub) : s[i + j] = sub[j]

\* Python truthiness of an Optional[str]: None and "" are both falsy
Truthy(v) == v # ""

\* str.lower() on the vocabulary of driver messages
Lower(t) ==
    CASE t = "Authentication" -> "authentication"
      [] t = "AUTHENTICATION" -> "authentication"
      [] t = "Invalid"        -> "invalid"
      [] OTHER                -> t

LowerAll(msg) == [i \in 1..Len(msg) |-> Lower(msg[i])]

----------------------------------------------------------------------------
(* The driver's exceptions *)

\* isinstance(e, snowflake.connector.errors.DatabaseError)
IsDatabaseError(cls) == cls \in {"DatabaseError", "ProgrammingError", "OperationalError"}

\* isinstance(e, snowflake.connector.errors.ProgrammingError)
IsProgrammingError(cls) == cls = "ProgrammingError"

Exc(cls, msg) == [cls |-> cls, msg |-> msg]

\* what snowflake.connector.connect() can raise
DriverExceptions ==
    { Exc("DatabaseError",    <<"Authentication", "token", "expired">>),
      Exc("OperationalError", <<"Invalid", "AUTHENTICATION", "method">>),
      Exc("DatabaseError",    <<"host", "not", "found">>),
      Exc("ProgrammingError", <<"does", "not", "exist">>),
      Exc("InterfaceError",   <<"Authentication", "token", "expired">>),
      Exc("OSError",          <<"host", "not", "found">>) }

NoException == [cls |-> "None", msg |-> <<>>]

----------------------------------------------------------------------------
(* Configuration *)

OptionalKeys == {"warehouse", "database", "schema", "role"}

OptionalProfiles ==
    { [warehouse |-> "",   database |-> "",   schema |-> "",       role |-> ""],
      [warehouse |-> "WH", database |-> "DB", schema |-> "PUBLIC", role |-> "R"] }

Config(a, u, t, o) ==
    [account |-> a, username |-> u, token |-> t,
     warehouse |-> o.warehouse, database |-> o.database,
     schema |-> o.schema, role |-> o.role]

\* the configurations a client is constructed with: complete ones, and one
\* for each required field left empty
Configs ==
    { Config("acct", "user", "pat-secret", o) : o \in OptionalProfiles } \cup
    { Config(r[1], r[2], r[3], o) :
        r \in { <<"", "user", "pat-secret">>,
                <<"acct", "", "pat-secret">>,
                <<"acct", "user", "">> },
        o \in {p \in OptionalProfiles : ~Truthy(p.warehouse)} }

\* connection_params as built by connect()
ConnectionParams(cfg) ==
    [k \in {"account", "user", "token", "authenticator"}
           \cup {o \in OptionalKeys : Truthy(cfg[o])} |->
        CASE k = "account"       -> cfg.account
          [] k = "user"          -> cfg.username
          [] k = "token"         -> cfg.token
          [] k = "authenticator" -> "oauth"
          [] OTHER               -> cfg[k]]

----------------------------------------------------------------------------
(* Driver calls, as recorded in lastCalls *)

NoBinds == [present |-> FALSE, list |-> <<>>]

NoParams == [k \in {} |-> ""]

DriverCall(fn, target, params, stmt, binds) ==
    [fn |-> fn, target |-> target, params |-> params, stmt |-> stmt, binds |-> binds]

ConnectCall(cfg)   == DriverCall("connect", NoHandle, ConnectionParams(cfg), <<>>, NoBinds)
CloseCall(h)       == DriverCall("close", h, NoParams, <<>>, NoBinds)
CursorCall(h)      == DriverCall("cursor", h, NoParams, <<>>, NoBinds)
ExecuteCall(h, stmt, binds) == DriverCall("execute", h, NoParams, stmt, binds)
FetchallCall(h)    == DriverCall("fetchall", h, NoParams, <<>>, NoBinds)
CursorCloseCall(h) == DriverCall("cursor.close", h, NoParams, <<>>, NoBinds)

----------------------------------------------------------------------------
(* is_connected *)

is_closed(h) == h \in closed

is_connected_HandleOnly == connection # NoHandle

\* return self.connection is not None and not self.connection.is_closed()
is_connected == connection # NoHandle /\ ~is_closed(connection)

OpenConnections == opened \ closed

----------------------------------------------------------------------------
(* connect *)

ConnectOutcomes ==
    {[ok |-> TRUE, exc |-> NoException]} \cup
    {[ok |-> FALSE, exc |-> e] : e \in DriverExceptions}

ConnectRaise_CaseSensitive(exc) ==
    IF IsDatabaseError(exc.cls)
    THEN IF Contains(exc.msg, <<"authentication">>)
         THEN [kind |-> "AuthenticationError",
               msg  |-> <<"Authentication failed:">> \o exc.msg]
         ELSE [kind |-> "SnowflakeConnectionError",
               msg  |-> <<"Failed to connect to Snowflake:">> \o exc.msg]
    ELSE [kind |-> "SnowflakeConnectionError",
          msg  |-> <<"Unexpected error connecting to Snowflake:">> \o exc.msg]

\* the except clauses of connect(): exception kind and message raised
ConnectRaise(exc) ==
    IF IsDatabaseError(exc.cls)
    THEN IF Contains(LowerAll(exc.msg), <<"authentication">>)
         THEN [kind |-> "AuthenticationError",
               msg  |-> <<"Authentication failed:">> \o exc.msg]
         ELSE [kind |-> "SnowflakeConnectionError",
               msg  |-> <<"Failed to connect to Snowflake:">> \o exc.msg]
    ELSE [kind |-> "SnowflakeConnectionError",
          msg  |-> <<"Unexpected error connecting to Snowflake:">> \o exc.msg]

NewHandle == Cardinality(opened) + 1

ConnectEffect_ClearsOnFailure(cfg, conn, outcome) ==
    LET attempt == <<"Connecting to Snowflake account:", cfg.account>> IN
    [connection |-> IF outcome.ok THEN NewHandle ELSE NoHandle,
     newOpened  |-> IF outcome.ok THEN {NewHandle} ELSE {},
     newClosed  |-> {},
     calls      |-> <<ConnectCall(cfg)>>,
     log        |-> IF outcome.ok
                    THEN <<attempt, <<"Successfully connected to Snowflake">>>>
                    ELSE <<attempt>>,
     error      |-> IF outcome.ok THEN "None" ELSE ConnectRaise(outcome.exc).kind,
     message    |-> IF outcome.ok THEN <<>> ELSE ConnectRaise(outcome.exc).msg]

ConnectEffect_RetriesOnce(cfg, conn, outcome) ==
    LET attempt == <<"Connecting to Snowflake account:", cfg.account>> IN
    [connection |-> IF outcome.ok THEN NewHandle ELSE conn,
     newOpened  |-> IF outcome.ok THEN {NewHandle} ELSE {},
     newClosed  |-> {},
     calls      |-> IF outcome.ok THEN <<ConnectCall(cfg)>>
                    ELSE <<ConnectCall(cfg), ConnectCall(cfg)>>,
     log        |-> IF outcome.ok
                    THEN <<attempt, <<"Successfully connected to Snowflake">>>>
                    ELSE <<attempt, attempt>>,
     error      |-> IF outcome.ok THEN "None" ELSE ConnectRaise(outcome.exc).kind,
     message    |-> IF outcome.ok THEN <<>> ELSE ConnectRaise(outcome.exc).msg]

ConnectEffect_LogsParams(cfg, conn, outcome) ==
    LET attempt == <<"Connecting to Snowflake with:", cfg.account, cfg.username, cfg.token>> IN
    [connection |-> IF outcome.ok THEN NewHandle ELSE conn,
     newOpened  |-> IF outcome.ok THEN {NewHandle} ELSE {},
     newClosed  |-> {},
     calls      |-> <<ConnectCall(cfg)>>,
     log        |-> IF outcome.ok
                    THEN <<attempt, <<"Successfully connected to Snowflake">>>>
                    ELSE <<attempt>>,
     error      |-> IF outcome.ok THEN "None" ELSE ConnectRaise(outcome.exc).kind,
     message    |-> IF outcome.ok THEN <<>> ELSE ConnectRaise(outcome.exc).msg]

\* the effect of connect() on the session, given what the driver does
ConnectEffect(cfg, conn, outcome) ==
    LET attempt == <<"Connecting to Snowflake account:", cfg.account>> IN
    IF outcome.ok
    THEN [connection |-> NewHandle,
          newOpened  |-> {NewHandle},
          newClosed  |-> {},
          calls      |-> <<ConnectCall(cfg)>>,
          log        |-> <<attempt, <<"Successfully connected to Snowflake">>>>,
          error      |-> "None",
          message    |-> <<>>]
    ELSE [connection |-> conn,
          newOpened  |-> {},
          newClosed  |-> {},
          calls      |-> <<ConnectCall(cfg)>>,
          log        |-> <<attempt>>,
          error      |-> ConnectRaise(outcome.exc).kind,
          message    |-> ConnectRaise(outcome.exc).msg]

----------------------------------------------------------------------------
(* disconnect *)

DisconnectEffect_KeepsHandle(conn) ==
    [connection |-> conn,
     newOpened  |-> {},
     newClosed  |-> IF conn # NoHandle THEN {conn} ELSE {},
     calls      |-> IF conn # NoHandle THEN <<CloseCall(conn)>> ELSE <<>>,
     log        |-> IF conn # NoHandle THEN <<<<"Disconnected from Snowflake">>>> ELSE <<>>,
     error      |-> "None",
     message    |-> <<>>]

\* the effect of disconnect(): close and clear the handle if there is one
DisconnectEffect(conn) ==
    IF conn # NoHandle
    THEN [connection |-> NoHandle,
          newOpened  |-> {},
          newClosed  |-> {conn},
          calls      |-> <<CloseCall(conn)>>,
          log        |-> <<<<"Disconnected from Snowflake">>>>,
          error      |-> "None",
          message    |-> <<>>]
    ELSE [connection |-> conn,
          newOpened  |-> {},
          newClosed  |-> {},
          calls      |-> <<>>,
          log        |-> <<>>,
          error      |-> "None",
          message    |-> <<>>]

----------------------------------------------------------------------------
(* Result materialization *)

EmptyDict == [keys |-> <<>>, map |-> [k \in {} |-> ""]]

DictSet_FirstWins(d, k, v) ==
    IF k \in Range(d.keys)
    THEN d
    ELSE [keys |-> Append(d.keys, k),
          map  |-> [x \in (DOMAIN d.map) \cup {k} |-> IF x = k THEN v ELSE d.map[x]]]

\* d[k] = v on a Python dict: a new key goes last, an existing key keeps its place
DictSet(d, k, v) ==
    [keys |-> IF k \in Range(d.keys) THEN d.keys ELSE Append(d.keys, k),
     map  |-> [x \in (DOMAIN d.map) \cup {k} |-> IF x = k THEN v ELSE d.map[x]]]

\* dict(zip(columns, row)): pairs are inserted left to right, up to the shorter length
RECURSIVE DictZipFrom(_, _, _, _)
DictZipFrom(columns, row, i, d) ==
    IF i > Min(Len(columns), Len(row))
    THEN d
    ELSE DictZipFrom(columns, row, i + 1, DictSet(d, columns[i], row[i]))

DictZip(columns, row) == DictZipFrom(columns, row, 1, EmptyDict)

\* a key used to subscript a record: a column name (str) or a position (int)
NameKey(name) == [kind |-> "name", name |-> name, index |-> 0]
PositionKey(index) == [kind |-> "position", name |-> "", index |-> index]

\* row[key] on a dict returned by the client: a str key is looked up among the
\* column names; an int key is equal to no str key and raises KeyError
DictGet(d, key) ==
    IF key.kind = "name" /\ key.name \in DOMAIN d.map
    THEN [raised |-> "None", value |-> d.map[key.name]]
    ELSE [raised |-> "KeyError", value |-> ""]

\* columns = [desc[0] for desc in cursor.description]
Columns(description) == [i \in 1..Len(description) |-> description[i][1]]

\* results = []; if cursor.description: for row in cursor.fetchall(): results.append(...)
Materialize(description, rows) ==
    IF description # <<>>
    THEN [j \in 1..Len(rows) |-> DictZip(Columns(description), rows[j])]
    ELSE <<>>

----------------------------------------------------------------------------
(* What the driver can do during one execution *)

FailPoints == {"cursor", "execute", "fetchall", "cursor.close"}

\* what cursor(), execute(), fetchall() and cursor.close() can raise
ExecExceptions ==
    { Exc("ProgrammingError", <<"does", "not", "exist">>),
      Exc("TypeError",        <<"Invalid", "argument", "types">>) }

Desc(name) == <<name, "TEXT">>

\* cursor.description (None and [] alike are <<>>) with the rows fetchall() returns
ResultShapes ==
    { [description |-> <<>>, rows |-> <<>>],
      [description |-> <<Desc("A"), Desc("B")>>, rows |-> << <<"1", "x">>, <<"2", "y">> >>],
      [description |-> <<Desc("A"), Desc("A")>>, rows |-> << <<"1", "x">> >>],
      [description |-> <<Desc("B"), Desc("A"), Desc("B")>>, rows |-> << <<"1", "x", "NULL">> >>],
      [description |-> <<Desc("A")>>, rows |-> << <<"2">>, <<"1">>, <<"2">> >>] }

ExecOutcomes ==
    { [failAt |-> "none", exc |-> NoException,
       description |-> r.description, rows |-> r.rows] : r \in ResultShapes }
    \cup
    { [failAt |-> f, exc |-> e, description |-> r.description, rows |-> r.rows] :
        f \in FailPoints, e \in ExecExceptions,
        r \in {x \in ResultShapes : Len(x.rows) = 2} }

\* the driver is consulted only when the is_connected() check passes
NoOutcome == [failAt |-> "none", exc |-> NoException, description |-> <<>>, rows |-> <<>>]

OutcomesWhen(connected) == IF connected THEN ExecOutcomes ELSE {NoOutcome}

\* the body of the try block shared by call_stored_procedure and execute_query:
\* cursor(), execute, fetch if there is column metadata, close; stops at the first raise
RunCursor(h, stmt, binds, o) ==
    LET c1 == <<CursorCall(h)>>
        c2 == Append(c1, ExecuteCall(h, stmt, binds))
        c3 == IF o.description # <<>> THEN Append(c2, FetchallCall(h)) ELSE c2
        c4 == Append(c3, CursorCloseCall(h))
        raise(calls) == [calls |-> calls, exc |-> o.exc, results |-> <<>>]
    IN  IF o.failAt = "cursor" THEN raise(c1)
        ELSE IF o.failAt = "execute" THEN raise(c2)
        ELSE IF o.failAt = "fetchall" /\ o.description # <<>> THEN raise(c3)
        ELSE IF o.failAt = "cursor.close" THEN raise(c4)
        ELSE [calls |-> c4, exc |-> NoException,
              results |-> Materialize(o.description, o.rows)]

NotConnectedMessage == <<"Not connected to Snowflake. Call connect() first.">>

NotConnectedEffect(conn) ==
    [connection |-> conn, newOpened |-> {}, newClosed |-> {},
     calls |-> <<>>, log |-> <<>>,
     error |-> "SnowflakeConnectionError", message |-> NotConnectedMessage,
     results |-> <<>>]

----------------------------------------------------------------------------
(* call_stored_procedure *)

ProcedureNames == {"sp_example", "non_existent_procedure"}

ParamValues == <<"hello", "NULL", "123">>

\* parameters: absent (None), or a list of at most MaxParams values
ParameterLists ==
    {NoBinds} \cup
    { [present |-> TRUE,
       list |-> [i \in 1..n |-> ParamValues[((i - 1) % 3) + 1]]] : n \in 0..MaxParams }

\* `if parameters:` is false for None and for []
HasParameters(parameters) == parameters.present /\ Len(parameters.list) > 0

Placeholders_OneShort(n) ==
    [i \in 1..(IF n <= 1 THEN 0 ELSE 2 * n - 3) |-> IF i % 2 = 1 THEN "%s" ELSE ","]

\* ', '.join(['%s'] * n)
Placeholders(n) ==
    [i \in 1..(IF n = 0 THEN 0 ELSE 2 * n - 1) |-> IF i % 2 = 1 THEN "%s" ELSE ","]

CallStatement(procedure_name, parameters) ==
    IF HasParameters(parameters)
    THEN <<"CALL", procedure_name, "(">> \o Placeholders(Len(parameters.list)) \o <<")">>
    ELSE <<"CALL", procedure_name, "(", ")">>

CallBinds(parameters) == IF HasParameters(parameters) THEN parameters ELSE NoBinds

CallRaise_OnlyProgrammingError(procedure_name, exc) ==
    IF IsProgrammingError(exc.cls)
    THEN [kind |-> "StoredProcedureError",
          msg  |-> <<"Error executing stored procedure", procedure_name, ":">> \o exc.msg]
    ELSE [kind |-> exc.cls, msg |-> exc.msg]

CallRaise_OmitsName(procedure_name, exc) ==
    IF IsProgrammingError(exc.cls)
    THEN [kind |-> "StoredProcedureError",
          msg  |-> <<"Error executing stored procedure:">> \o exc.msg]
    ELSE [kind |-> "StoredProcedureError",
          msg  |-> <<"Unexpected error executing stored procedure:">> \o exc.msg]

\* the except clauses of call_stored_procedure
CallRaise(procedure_name, exc) ==
    IF IsProgrammingError(exc.cls)
    THEN [kind |-> "StoredProcedureError",
          msg  |-> <<"Error executing stored procedure", procedure_name, ":">> \o exc.msg]
    ELSE [kind |-> "StoredProcedureError",
          msg  |-> <<"Unexpected error executing stored procedure", procedure_name, ":">>
                   \o exc.msg]

\* the try block of call_stored_procedure and its except clauses
CallRun(conn, procedure_name, parameters, o) ==
    LET stmt == CallStatement(procedure_name, parameters)
        run  == RunCursor(conn, stmt, CallBinds(parameters), o)
        executing ==
            IF HasParameters(parameters)
            THEN <<"Executing:">> \o stmt \o <<"with parameters:">> \o parameters.list
            ELSE <<"Executing:">> \o stmt
        done == <<"Successfully executed stored procedure", procedure_name,
                  ", returned", ToString(Len(run.results)), "rows">>
        log  == IF Len(run.calls) < 2 THEN <<>>
                ELSE IF run.exc # NoException THEN <<executing>>
                ELSE <<executing, done>>
    IN  [connection |-> conn, newOpened |-> {}, newClosed |-> {},
         calls |-> run.calls, log |-> log,
         error   |-> IF run.exc = NoException THEN "None"
                     ELSE CallRaise(procedure_name, run.exc).kind,
         message |-> IF run.exc = NoException THEN <<>>
                     ELSE CallRaise(procedure_name, run.exc).msg,
         results |-> run.results]

CallEffect_Unguarded(conn, connected, procedure_name, parameters, o) ==
    CallRun(conn, procedure_name, parameters, o)

\* call_stored_procedure: the is_connected() check, then the try block
CallEffect(conn, connected, procedure_name, parameters, o) ==
    IF ~connected
    THEN NotConnectedEffect(conn)
    ELSE CallRun(conn, procedure_name, parameters, o)

----------------------------------------------------------------------------
(* execute_query *)

Queries == { <<"SELECT", "CURRENT_USER()">>, <<"SHOW", "PROCEDURES">> }

\* the except clauses of execute_query
QueryRaise(query, exc) ==
    IF IsProgrammingError(exc.cls)
    THEN [kind |-> "StoredProcedureError",
          msg  |-> <<"Error executing query:">> \o exc.msg]
    ELSE [kind |-> "StoredProcedureError",
          msg  |-> <<"Unexpected error executing query:">> \o exc.msg]

\* the try block of execute_query and its except clauses
QueryRun(conn, query, o) ==
    LET run  == RunCursor(conn, query, NoBinds, o)
        executing == <<"Executing query:">> \o query
        done == <<"Query executed successfully, returned",
                  ToString(Len(run.results)), "rows">>
        log  == IF Len(run.calls) < 2 THEN <<>>
                ELSE IF run.exc # NoException THEN <<executing>>
                ELSE <<executing, done>>
    IN  [connection |-> conn, newOpened |-> {}, newClosed |-> {},
         calls |-> run.calls, log |-> log,
         error   |-> IF run.exc = NoException THEN "None"
                     ELSE QueryRaise(query, run.exc).kind,
         message |-> IF run.exc = NoException THEN <<>>
                     ELSE QueryRaise(query, run.exc).msg,
         results |-> run.results]

\* execute_query: the is_connected() check, then the try block
QueryEffect(conn, connected, query, o) ==
    IF ~connected
    THEN NotConnectedEffect(conn)
    ELSE QueryRun(conn, query, o)

----------------------------------------------------------------------------
(* __enter__ / __exit__ *)

\* what the body of a `with client:` block can end with
BodyOutcomes == {"None", "StoredProcedureError", "SnowflakeConnectionError", "ValueError"}

EnterEffect(cfg, conn, outcome) == ConnectEffect(cfg, conn, outcome)

ExitEffect_NoDisconnect(conn) ==
    [connection |-> conn, newOpened |-> {}, newClosed |-> {},
     calls |-> <<>>, log |-> <<>>, error |-> "None", message |-> <<>>]

\* __exit__ calls self.disconnect()
ExitEffect(conn) == DisconnectEffect(conn)

\* __exit__ returns None: the exception the body raised is not suppressed
ExitSuppresses == FALSE

ExitPropagates(bodyExc) == IF ExitSuppresses THEN "None" ELSE bodyExc

----------------------------------------------------------------------------
(* Results and inputs of an operation *)

NoReturn == [kind |-> "raised", value |-> <<>>]
ReturnNone == [kind |-> "None", value |-> <<>>]
ReturnList(l) == [kind |-> "list", value |-> l]

\* the arguments of an operation and what the driver did during it
NoInput == [name |-> "", parameters |-> NoBinds, query |-> <<>>,
            exc |-> NoException, failAt |-> "none",
            description |-> <<>>, rows |-> <<>>, bodyExc |-> "None"]

\* the input of an execution, with what the driver did if the driver was reached
Met(input, eff, o) ==
    IF eff.calls = <<>> THEN input
    ELSE [input EXCEPT !.exc = o.exc, !.failAt = o.failAt,
                       !.description = o.description, !.rows = o.rows]

\* apply an effect record to the session
Apply(op, input, eff, result, invoked) ==
    /\ connection'  = eff.connection
    /\ opened'      = opened \cup eff.newOpened
    /\ closed'      = closed \cup eff.newClosed
    /\ lastOp'      = op
    /\ lastInput'   = input
    /\ lastInvoked' = invoked
    /\ lastCalls'   = eff.calls
    /\ lastLog'     = eff.log
    /\ lastError'   = eff.error
    /\ lastMessage' = eff.message
    /\ lastResult'  = IF eff.error = "None" THEN result ELSE NoReturn

----------------------------------------------------------------------------
(* Command line: text given on the command line (cli.py) *)

MaxStrLen == 3       \* longest enumerated --parameters string, in characters

\* an optional text argument: not given (None), or given with its text;
\* --parameters is text character by character, --query token by token
NoText == [set |-> FALSE, text |-> <<>>]
Text(t) == [set |-> TRUE, text |-> t]

\* truth value of an optional text: false for None and for ''
TextTruthy(p) == p.set /\ p.text # <<>>

Whitespace == {" "}

\* str.strip(): without the leading and the trailing whitespace
Strip(s) ==
    IF \A i \in 1..Len(s) : s[i] \in Whitespace THEN <<>>
    ELSE LET first == CHOOSE i \in 1..Len(s) :
                          /\ s[i] \notin Whitespace
                          /\ \A j \in 1..(i - 1) : s[j] \in Whitespace
             last  == CHOOSE i \in 1..Len(s) :
                          /\ s[i] \notin Whitespace
                          /\ \A j \in (i + 1)..Len(s) : s[j] \in Whitespace
         IN SubSeq(s, first, last)

\* str.split(','): the pieces between the commas, empty ones included
RECURSIVE Split(_)
Split(s) ==
    IF \A i \in 1..Len(s) : s[i] # "," THEN <<s>>
    ELSE LET i == CHOOSE k \in 1..Len(s) :
                      s[k] = "," /\ \A j \in 1..(k - 1) : s[j] # ","
         IN <<SubSeq(s, 1, i - 1)>> \o Split(SubSeq(s, i + 1, Len(s)))

----------------------------------------------------------------------------
(* json.loads on one comma-free token without backslashes or object members *)

Digits == {"0", "1", "2", "3", "4", "5", "6", "7", "8", "9"}

IsDigits(s) == s # <<>> /\ \A i \in 1..Len(s) : s[i] \in Digits

IsJsonInt(s) ==
    LET u == IF s # <<>> /\ Head(s) = "-" THEN Tail(s) ELSE s
    IN IsDigits(u) /\ (Len(u) = 1 \/ Head(u) # "0")

IsJsonFrac(s) == s # <<>> /\ Head(s) = "." /\ IsDigits(Tail(s))

IsJsonExp(s) ==
    /\ s # <<>>
    /\ Head(s) \in {"e", "E"}
    /\ LET t == Tail(s)
       IN IsDigits(IF t # <<>> /\ Head(t) \in {"+", "-"} THEN Tail(t) ELSE t)

\* int, then an optional fraction, then an optional exponent
IsJsonFloat(s) ==
    \E i \in 1..Len(s), j \in 1..Len(s) :
        /\ i <= j
        /\ i < Len(s)
        /\ IsJsonInt(SubSeq(s, 1, i))
        /\ i < j => IsJsonFrac(SubSeq(s, i + 1, j))
        /\ j < Len(s) => IsJsonExp(SubSeq(s, j + 1, Len(s)))

IsJsonString(s) ==
    /\ Len(s) >= 2
    /\ Head(s) = "\""
    /\ s[Len(s)] = "\""
    /\ \A i \in 2..(Len(s) - 1) : s[i] \notin {"\"", "\\"}

JsonConstants ==
    [type |-> "bool",  text |-> <<"t", "r", "u", "e">>] :>  TRUE @@
    [type |-> "bool",  text |-> <<"f", "a", "l", "s", "e">>] :> TRUE @@
    [type |-> "null",  text |-> <<"n", "u", "l", "l">>] :> TRUE @@
    [type |-> "float", text |-> <<"N", "a", "N">>] :> TRUE @@
    [type |-> "float", text |-> <<"I", "n", "f", "i", "n", "i", "t", "y">>] :> TRUE @@
    [type |-> "float", text |-> <<"-", "I", "n", "f", "i", "n", "i", "t", "y">>] :> TRUE

IsJsonConstant(s) == \E c \in DOMAIN JsonConstants : c.text = s

Enclosed(s, open, close) ==
    Len(s) >= 2 /\ Head(s) = open /\ s[Len(s)] = close

RECURSIVE IsJson(_)
IsJson(s) ==
    \/ IsJsonConstant(s)
    \/ IsJsonInt(s)
    \/ IsJsonFloat(s)
    \/ IsJsonString(s)
    \/ /\ Enclosed(s, "[", "]")
       /\ LET inner == Strip(SubSeq(s, 2, Len(s) - 1))
          IN inner = <<>> \/ IsJson(inner)
    \/ /\ Enclosed(s, "{", "}")
       /\ Strip(SubSeq(s, 2, Len(s) - 1)) = <<>>

\* a Python value: its type and its text (a str without the JSON quotes)
PyStr(s) == [type |-> "str", text |-> s]

JsonValue(s) ==
    CASE IsJsonConstant(s) -> CHOOSE c \in DOMAIN JsonConstants : c.text = s
      [] IsJsonInt(s)      -> [type |-> "int", text |-> s]
      [] IsJsonFloat(s)    -> [type |-> "float", text |-> s]
      [] IsJsonString(s)   -> PyStr(SubSeq(s, 2, Len(s) - 1))
      [] Enclosed(s, "[", "]") -> [type |-> "list", text |-> s]
      [] OTHER             -> [type |-> "dict", text |-> s]

\* json.loads(s): the value, or JSONDecodeError
JsonLoads(s) ==
    IF IsJson(s) THEN [raised |-> "None", value |-> JsonValue(s)]
    ELSE [raised |-> "JSONDecodeError", value |-> PyStr(<<>>)]

----------------------------------------------------------------------------
(* parse_parameters *)

parse_parameters_NoStrip(param_string) ==
    IF ~TextTruthy(param_string) THEN NoBinds
    ELSE LET params == Split(param_string.text)
         IN [present |-> TRUE,
             list |-> [i \in 1..Len(params) |->
                          LET parsed == JsonLoads(params[i])
                          IN IF parsed.raised = "None" THEN parsed.value
                             ELSE PyStr(params[i])]]

\* None for no text; else each stripped piece, as its JSON value or as itself
parse_parameters(param_string) ==
    IF ~TextTruthy(param_string) THEN NoBinds
    ELSE LET pieces == Split(param_string.text)
             params == [i \in 1..Len(pieces) |-> Strip(pieces[i])]
         IN [present |-> TRUE,
             list |-> [i \in 1..Len(params) |->
                          LET parsed == JsonLoads(params[i])
                          IN IF parsed.raised = "None" THEN parsed.value
                             ELSE PyStr(params[i])]]

----------------------------------------------------------------------------
(* Command line: configuration (load_config_from_env, main) *)

\* os.getenv of an unset variable; an option that was not given
PyNone == "<None>"

\* truth value of an optional plain string: false for None and for ''
ValueTruthy(v) == v # PyNone /\ Truthy(v)

ConfigKeys == <<"account", "username", "token", "warehouse", "database", "schema", "role">>

required_params == <<"account", "username", "token">>

env_mapping ==
    [SNOWFLAKE_ACCOUNT   |-> "account",
     SNOWFLAKE_USERNAME  |-> "username",
     SNOWFLAKE_TOKEN     |-> "token",
     SNOWFLAKE_WAREHOUSE |-> "warehouse",
     SNOWFLAKE_DATABASE  |-> "database",
     SNOWFLAKE_SCHEMA    |-> "schema",
     SNOWFLAKE_ROLE      |-> "role"]

EnvVarOf(key) == CHOOSE v \in DOMAIN env_mapping : env_mapping[v] = key

load_config_from_env_KeepsEmpty(env) ==
    LET found == {v \in DOMAIN env_mapping : env[v] # PyNone}
    IN [k \in {env_mapping[v] : v \in found} |-> env[EnvVarOf(k)]]

\* the dict of the variables that are set to a non-empty value
load_config_from_env(env) ==
    LET found == {v \in DOMAIN env_mapping : ValueTruthy(env[v])}
    IN [k \in {env_mapping[v] : v \in found} |-> env[EnvVarOf(k)]]

OverrideWithArgs_EnvWins(cfg, args) ==
    [k \in DOMAIN cfg \cup {a \in Range(ConfigKeys) : ValueTruthy(args[a])} |->
        IF k \in DOMAIN cfg THEN cfg[k] ELSE args[k]]

\* `if value: config[key] = value` for each of the seven options
OverrideWithArgs(cfg, args) ==
    [k \in DOMAIN cfg \cup {a \in Range(ConfigKeys) : ValueTruthy(args[a])} |->
        IF ValueTruthy(args[k]) THEN args[k] ELSE cfg[k]]

ResolveConfig(env, args) == OverrideWithArgs(load_config_from_env(env), args)

missing_params(cfg) == SelectSeq(required_params, LAMBDA p : p \notin DOMAIN cfg)

\* ', '.join(names)
JoinNames(names) ==
    [i \in 1..(IF names = <<>> THEN 0 ELSE 2 * Len(names) - 1) |->
        IF i % 2 = 1 THEN names[(i + 1) \div 2] ELSE ","]

MissingMessage(missing) ==
    <<"Missing required parameters:">> \o JoinNames(missing)
        \o <<". Provide them via command line arguments or environment variables.">>

\* config.get(key): None, which the client treats like '', when the key is absent
ConfigGet(cfg, key) == IF key \in DOMAIN cfg THEN cfg[key] ELSE ""

\* the arguments of SnowflakeClient(...) in main
ClientConfig(cfg) ==
    Config(cfg["account"], cfg["username"], cfg["token"],
           [k \in OptionalKeys |-> ConfigGet(cfg, k)])

\* the value of `config` while no client has been constructed
NoClient == Config("", "", "", [k \in OptionalKeys |-> ""])

----------------------------------------------------------------------------
(* Command line: output *)

NoOutput == [format |-> "none", header |-> <<>>, lines |-> <<>>, text |-> ""]

\* dict.get(key, '')
RowGet(row, key) == IF key \in Range(row.keys) THEN row.map[key] ELSE ""

\* the text main builds from the records: json.dumps, the tab-separated
\* table, or csv.DictWriter with the first record's keys as field names
FormatOutput(format, results) ==
    LET headers == IF results = <<>> THEN <<>> ELSE results[1].keys
        cells   == [j \in 1..Len(results) |->
                       [i \in 1..Len(headers) |-> RowGet(results[j], headers[i])]]
        members == [j \in 1..Len(results) |->
                       [i \in 1..Len(results[j].keys) |->
                           <<results[j].keys[i], results[j].map[results[j].keys[i]]>>]]
    IN CASE format = "json" ->
                [format |-> "json", header |-> <<>>, lines |-> members, text |-> ""]
         [] format = "table" /\ results # <<>> ->
                [format |-> "table", header |-> headers, lines |-> cells, text |-> ""]
         [] format = "table" ->
                [format |-> "table", header |-> <<>>, lines |-> <<>>,
                 text |-> "No results returned."]
         [] format = "csv" ->
                [format |-> "csv", header |-> headers, lines |-> cells, text |-> ""]

\* the file named by --file
NoFile == [exists |-> FALSE, content |-> <<>>]
FileWith(content) == [exists |-> TRUE, content |-> content]

\* open(file, 'w') may fail and leave the file alone; it truncates the file
\* when it succeeds, and f.write may still fail after that
WriteOutcomes == {"ok", "open_fails", "write_fails"}

WriteFile_Appends(file, output, w) ==
    CASE w = "ok"          -> [file |-> FileWith(file.content \o <<output>>), raised |-> "None"]
      [] w = "open_fails"  -> [file |-> file,                 raised |-> "OSError"]
      [] w = "write_fails" -> [file |-> file,                 raised |-> "OSError"]

WriteFile(file, output, w) ==
    CASE w = "ok"          -> [file |-> FileWith(<<output>>), raised |-> "None"]
      [] w = "open_fails"  -> [file |-> file,                 raised |-> "OSError"]
      [] w = "write_fails" -> [file |-> FileWith(<<>>),       raised |-> "OSError"]

ExceptClause_StoredProcedureErrorUncaught(kind) ==
    CASE kind = "None"                     -> [label |-> "Operation completed successfully", code |-> 0]
      [] kind = "ConfigurationError"       -> [label |-> "Configuration error:", code |-> 1]
      [] kind = "AuthenticationError"      -> [label |-> "Authentication error:", code |-> 1]
      [] kind = "SnowflakeConnectionError" -> [label |-> "Connection error:", code |-> 1]
      [] kind = "StoredProcedureError"     -> [label |-> "Operation completed successfully", code |-> 0]
      [] OTHER                             -> [label |-> "Unexpected error:", code |-> 1]

\* how main ends: the success line, or the except clause that catches the
\* exception, with the argument it gives to sys.exit
ExceptClause(kind) ==
    CASE kind = "None"                     -> [label |-> "Operation completed successfully", code |-> 0]
      [] kind = "ConfigurationError"       -> [label |-> "Configuration error:", code |-> 1]
      [] kind = "AuthenticationError"      -> [label |-> "Authentication error:", code |-> 1]
      [] kind = "SnowflakeConnectionError" -> [label |-> "Connection error:", code |-> 1]
      [] kind = "StoredProcedureError"     -> [label |-> "Stored procedure error:", code |-> 1]
      [] OTHER                             -> [label |-> "Unexpected error:", code |-> 1]

----------------------------------------------------------------------------
(* Command line: one run of main *)

\* the value of `cli` when the client is driven directly, not by main
NoCli == [pc |-> "none"]

\* exit code of a run that has not ended
Running == -1

\* a run at the start of main's try block
CliStart(env, args, file) ==
    [pc |-> "main", env |-> env, args |-> args, config |-> [k \in {} |-> ""],
     parameters |-> NoBinds, results |-> <<>>, output |-> NoOutput,
     stdout |-> <<>>, file |-> file, events |-> <<>>,
     raised |-> "None", label |-> "", message |-> <<>>, exit |-> Running]

\* main ends: normally, or in the except clause that catches `kind`
CliEnd(c, kind, message) ==
    [c EXCEPT !.pc = "exited", !.raised = kind, !.message = message,
              !.label = ExceptClause(kind).label, !.exit = ExceptClause(kind).code]

EnvValue ==
    [account |-> "env-acct", username |-> "env-user", token |-> "env-pat",
     warehouse |-> "ENV_WH", database |-> "ENV_DB", schema |-> "ENV_SCHEMA",
     role |-> "ENV_ROLE"]

ArgValue ==
    [account |-> "arg-acct", username |-> "arg-user", token |-> "arg-pat",
     warehouse |-> "ARG_WH", database |-> "ARG_DB", schema |-> "ARG_SCHEMA",
     role |-> "ARG_ROLE"]

\* how a variable or an option can be given: not at all, empty, or with a value
Sources(value) == {PyNone, "", value}

BaseEnv == [v \in DOMAIN env_mapping |-> EnvValue[env_mapping[v]]]
NoEnv   == [v \in DOMAIN env_mapping |-> PyNone]
NoFlags == [k \in Range(ConfigKeys) |-> PyNone]
AllFlags == [k \in Range(ConfigKeys) |-> ArgValue[k]]

\* argparse defaults of the options that select the operation and the output
DefaultRun ==
    [procedure |-> "sp_example", parameters |-> NoText, query |-> NoText,
     output |-> "json", file |-> PyNone]

Hello123True ==
    <<"h", "e", "l", "l", "o", ",", "1", "2", "3", ",", "t", "r", "u", "e">>

OldFile == FileWith(<<[NoOutput EXCEPT !.text = "previous content"]>>)

\* runs that differ in one option's environment variable and flag
KeyRuns ==
    { CliStart([BaseEnv EXCEPT ![EnvVarOf(k[1])] = k[2]],
               [NoFlags EXCEPT ![k[1]] = k[3]] @@ DefaultRun, NoFile) :
        k \in UNION { {key} \X Sources(EnvValue[key]) \X Sources(ArgValue[key]) :
                        key \in Range(ConfigKeys) } }
    \cup { CliStart(NoEnv, NoFlags @@ DefaultRun, NoFile),
           CliStart(NoEnv, AllFlags @@ DefaultRun, NoFile) }

\* runs that differ in the operation, the output format and the destination
OutputRuns ==
    { CliStart(BaseEnv, NoFlags @@ r[1], r[2]) :
        r \in { <<[DefaultRun EXCEPT !.query = Text(<<"SELECT", "CURRENT_USER()">>),
                                     !.parameters = Text(Hello123True),
                                     !.output = "table", !.file = "out.txt"], OldFile>>,
                <<[DefaultRun EXCEPT !.query = Text(<<>>),
                                     !.procedure = "non_existent_procedure",
                                     !.output = "csv"], NoFile>>,
                <<[DefaultRun EXCEPT !.file = "out.json"], NoFile>>,
                <<[DefaultRun EXCEPT !.output = "table", !.file = ""], NoFile>>,
                <<[DefaultRun EXCEPT !.output = "csv", !.file = "out.csv"], OldFile>>,
                <<[DefaultRun EXCEPT !.query = Text(<<"SHOW", "PROCEDURES">>),
                                     !.output = "table"], NoFile>> } }

ParamAlphabet == {"a", "1", ",", " "}

ParamSamples ==
    { Hello123True,
      <<" ", "7", " ", ",", " ", "x", " ">>,
      <<"n", "u", "l", "l", ",", "-", "5", ",", "0", "1">>,
      <<"\"", "a", "\"", ",", "[", "1", "]", ",", "1", ".", "5">>,
      <<"[", "1", ",", "2", "]">> }

\* the texts given as --parameters: '', every text of at most MaxStrLen
\* characters over ParamAlphabet, and the samples
ParamStrings ==
    {<<>>} \cup UNION { [1..n -> ParamAlphabet] : n \in 1..MaxStrLen } \cup ParamSamples

ParameterRuns ==
    { CliStart(BaseEnv, NoFlags @@ [DefaultRun EXCEPT !.parameters = Text(s)], NoFile) :
        s \in ParamStrings }

CliRuns == KeyRuns \cup OutputRuns \cup ParameterRuns

----------------------------------------------------------------------------
(* Actions *)

Init ==
    /\ config \in Configs
    /\ connection = NoHandle
    /\ opened = {}
    /\ closed = {}
    /\ scope = "outside"
    /\ lastOp = "__init__"
    /\ lastInput = NoInput
    /\ lastInvoked = <<>>
    /\ lastCalls = <<>>
    /\ lastLog = <<>>
    /\ lastError = "None"
    /\ lastMessage = <<>>
    /\ lastResult = ReturnNone
    /\ cli = NoCli

Connect ==
    \E outcome \in ConnectOutcomes :
        /\ outcome.ok => Cardinality(opened) < MaxHandles
        /\ Apply("connect", [NoInput EXCEPT !.exc = outcome.exc],
                 ConnectEffect(config, connection, outcome), ReturnNone, <<>>)
        /\ UNCHANGED <<config, scope, cli>>

Disconnect ==
    /\ Apply("disconnect", NoInput, DisconnectEffect(connection), ReturnNone, <<>>)
    /\ UNCHANGED <<config, scope, cli>>

\* the driver's transport closes underneath the session (is_closed() turns true)
TransportClosed ==
    /\ connection # NoHandle
    /\ ~is_closed(connection)
    /\ closed' = closed \cup {connection}
    /\ lastOp' = "transport_closed"
    /\ lastInput' = NoInput
    /\ lastInvoked' = <<>>
    /\ lastCalls' = <<>>
    /\ lastLog' = <<>>
    /\ lastError' = "None"
    /\ lastMessage' = <<>>
    /\ lastResult' = ReturnNone
    /\ UNCHANGED <<config, connection, opened, scope, cli>>

CallStoredProcedure ==
    \E procedure_name \in ProcedureNames, parameters \in ParameterLists,
       o \in OutcomesWhen(is_connected) :
        LET eff == CallEffect(connection, is_connected, procedure_name, parameters, o) IN
        /\ Apply("call_stored_procedure",
                 Met([NoInput EXCEPT !.name = procedure_name,
                                     !.parameters = parameters], eff, o),
                 eff, ReturnList(eff.results), <<"is_connected">>)
        /\ UNCHANGED <<config, scope, cli>>

ExecuteQuery ==
    \E query \in Queries, o \in OutcomesWhen(is_connected) :
        LET eff == QueryEffect(connection, is_connected, query, o) IN
        /\ Apply("execute_query",
                 Met([NoInput EXCEPT !.query = query], eff, o),
                 eff, ReturnList(eff.results), <<"is_connected">>)
        /\ UNCHANGED <<config, scope, cli>>

\* `with client:` is entered: __enter__ runs connect(); the body starts if it returns
Enter ==
    /\ scope = "outside"
    /\ \E outcome \in ConnectOutcomes :
        LET eff == EnterEffect(config, connection, outcome) IN
        /\ outcome.ok => Cardinality(opened) < MaxHandles
        /\ Apply("__enter__", [NoInput EXCEPT !.exc = outcome.exc],
                 eff, ReturnNone, <<"connect">>)
        /\ scope' = IF eff.error = "None" THEN "body" ELSE "outside"
        /\ UNCHANGED <<config, cli>>

\* the body ends, normally or by raising bodyExc: __exit__ runs disconnect()
Exit ==
    /\ scope = "body"
    /\ \E bodyExc \in BodyOutcomes :
        LET eff == ExitEffect(connection) IN
        /\ Apply("__exit__", [NoInput EXCEPT !.bodyExc = bodyExc],
                 [eff EXCEPT !.error = ExitPropagates(bodyExc)],
                 ReturnNone, <<"disconnect">>)
        /\ scope' = "outside"
        /\ UNCHANGED <<config, cli>>

Next ==
    \/ Connect
    \/ Disconnect
    \/ CallStoredProcedure
    \/ ExecuteQuery
    \/ Enter
    \/ Exit
    \/ TransportClosed

Spec == Init /\ [][Next]_vars

----------------------------------------------------------------------------
(* Actions of a command-line run *)

InitCLI ==
    /\ cli \in CliRuns
    /\ config = NoClient
    /\ connection = NoHandle
    /\ opened = {}
    /\ closed = {}
    /\ scope = "outside"
    /\ lastOp = "__init__"
    /\ lastInput = NoInput
    /\ lastInvoked = <<>>
    /\ lastCalls = <<>>
    /\ lastLog = <<>>
    /\ lastError = "None"
    /\ lastMessage = <<>>
    /\ lastResult = ReturnNone

\* main resolves the configuration, then raises ConfigurationError or
\* constructs the client
CliConfigure ==
    /\ cli.pc = "main"
    /\ LET cfg     == ResolveConfig(cli.env, cli.args)
           missing == missing_params(cfg)
           c       == [cli EXCEPT !.config = cfg]
       IN IF missing # <<>>
          THEN /\ cli' = CliEnd(c, "ConfigurationError", MissingMessage(missing))
               /\ UNCHANGED config
          ELSE /\ cli' = [c EXCEPT !.pc = "client",
                                   !.events = Append(@, "SnowflakeClient")]
               /\ config' = ClientConfig(cfg)
    /\ UNCHANGED <<connection, opened, closed, scope, lastOp, lastInput, lastInvoked,
                   lastCalls, lastLog, lastError, lastMessage, lastResult>>

\* `with client:` is entered
CliEnter ==
    /\ cli.pc = "client"
    /\ \E outcome \in ConnectOutcomes :
        LET eff == EnterEffect(config, connection, outcome)
            c   == [cli EXCEPT !.events = Append(@, "connect")]
        IN /\ Apply("__enter__", [NoInput EXCEPT !.exc = outcome.exc],
                    eff, ReturnNone, <<"connect">>)
           /\ scope' = IF eff.error = "None" THEN "body" ELSE "outside"
           /\ cli' = IF eff.error = "None" THEN [c EXCEPT !.pc = "body"]
                     ELSE CliEnd(c, eff.error, eff.message)
           /\ UNCHANGED config

\* the body runs the query, or parses the parameters and calls the procedure
CliExecute ==
    /\ cli.pc = "body"
    /\ \E o \in OutcomesWhen(is_connected) :
        LET isQuery    == TextTruthy(cli.args.query)
            parameters == parse_parameters(cli.args.parameters)
            eff   == IF isQuery
                     THEN QueryEffect(connection, is_connected, cli.args.query.text, o)
                     ELSE CallEffect(connection, is_connected, cli.args.procedure,
                                     parameters, o)
            input == IF isQuery
                     THEN [NoInput EXCEPT !.query = cli.args.query.text]
                     ELSE [NoInput EXCEPT !.name = cli.args.procedure,
                                          !.parameters = parameters]
        IN /\ Apply(IF isQuery THEN "execute_query" ELSE "call_stored_procedure",
                    Met(input, eff, o), eff, ReturnList(eff.results), <<"is_connected">>)
           /\ cli' = [cli EXCEPT
                        !.pc = IF eff.error = "None" THEN "write" ELSE "leaving",
                        !.parameters = IF isQuery THEN @ ELSE parameters,
                        !.results = IF eff.error = "None" THEN eff.results ELSE @,
                        !.raised = eff.error,
                        !.message = eff.message,
                        !.events = Append(@, "execute")]
           /\ UNCHANGED <<config, scope>>

\* the body formats the records and writes them to the file or to stdout
CliWrite ==
    /\ cli.pc = "write"
    /\ LET output == FormatOutput(cli.args.output, cli.results)
       IN IF ValueTruthy(cli.args.file)
          THEN \E w \in WriteOutcomes :
                 LET r == WriteFile(cli.file, output, w)
                 IN cli' = [cli EXCEPT
                              !.pc = "leaving", !.output = output, !.file = r.file,
                              !.raised = r.raised,
                              !.message = IF r.raised = "None" THEN <<>>
                                          ELSE <<"[Errno]", cli.args.file>>,
                              !.events = Append(@, IF w = "open_fails" THEN "open_failed"
                                                   ELSE "file_truncated") \o
                                         (IF w = "ok" THEN <<"file_written">> ELSE <<>>)]
          ELSE cli' = [cli EXCEPT !.pc = "leaving", !.output = output,
                                  !.stdout = Append(@, output),
                                  !.events = Append(@, "print")]
    /\ UNCHANGED <<config, connection, opened, closed, scope, lastOp, lastInput,
                   lastInvoked, lastCalls, lastLog, lastError, lastMessage, lastResult>>

\* the with block is left: __exit__ disconnects, then main ends
CliExit ==
    /\ cli.pc = "leaving"
    /\ LET eff == ExitEffect(connection)
       IN /\ Apply("__exit__", [NoInput EXCEPT !.bodyExc = cli.raised],
                   [eff EXCEPT !.error = ExitPropagates(cli.raised)],
                   ReturnNone, <<"disconnect">>)
          /\ scope' = "outside"
          /\ cli' = CliEnd([cli EXCEPT !.events = Append(@, "disconnect")],
                           ExitPropagates(cli.raised), cli.message)
          /\ UNCHANGED config

NextCLI ==
    \/ CliConfigure
    \/ CliEnter
    \/ CliExecute
    \/ CliWrite
    \/ CliExit
    \/ TransportClosed

SpecCLI == InitCLI /\ [][NextCLI]_vars

----------------------------------------------------------------------------
(* Properties *)

ExecOps == {"call_stored_procedure", "execute_query"}

AnyRequiredEmpty(cfg) == cfg.account = "" \/ cfg.username = "" \/ cfg.token = ""

SuccessfulConnect == lastOp \in {"connect", "__enter__"} /\ lastError = "None"

DisconnectCalled == lastOp \in {"disconnect", "__exit__"}

\* C1: with any of account, username or token empty, connect fails with
\* ConfigurationError, makes no call to the driver and leaves the session
\* disconnected.
C1_EmptyFieldFailsFast ==
    (lastOp = "connect" /\ AnyRequiredEmpty(config)) =>
        /\ lastError = "ConfigurationError"
        /\ lastCalls = <<>>
        /\ ~is_connected

\* C2 as stated: once a connect has succeeded is_connected stays true until
\* disconnect is called, and then stays false until the next successful connect.
C2_ConnectedUntilDisconnect ==
    [][ /\ SuccessfulConnect' => is_connected'
        /\ (is_connected /\ ~is_connected') => DisconnectCalled'
        /\ DisconnectCalled' => ~is_connected'
        /\ (~is_connected /\ is_connected') => SuccessfulConnect' ]_vars

\* C2 amended: once a connect has succeeded is_connected stays true until
\* disconnect is called or the driver reports the connection closed, and then
\* stays false until the next successful connect.
C2_ConnectedUntilDisconnectOrClosed ==
    [][ /\ SuccessfulConnect' => is_connected'
        /\ (is_connected /\ ~is_connected') =>
                (DisconnectCalled' \/ lastOp' = "transport_closed")
        /\ DisconnectCalled' => ~is_connected'
        /\ (~is_connected /\ is_connected') => SuccessfulConnect' ]_vars

C2_Witness ==
    /\ lastOp = "disconnect"
    /\ Len(lastCalls) = 1
    /\ lastCalls[1].target \in opened
    /\ ~is_connected

\* C3: call_stored_procedure and execute_query on a session that is not
\* connected (no handle, or a handle whose transport is closed) raise
\* SnowflakeConnectionError, create no cursor and send nothing to the driver.
C3_NotConnectedRaisesConnectionError ==
    [][ (lastOp' \in ExecOps /\ ~is_connected) =>
            /\ lastError' = "SnowflakeConnectionError"
            /\ lastCalls' = <<>>
            /\ lastResult' = NoReturn
            /\ UNCHANGED <<connection, opened, closed>> ]_vars

C3_Witness ==
    /\ lastOp = "call_stored_procedure"
    /\ lastError = "SnowflakeConnectionError"
    /\ connection # NoHandle
    /\ is_closed(connection)

\* C4: when `with client:` was entered, leaving it runs disconnect exactly
\* once, whether the body returned or raised and whether or not the body had
\* already disconnected; afterwards the session holds no handle and the
\* body's exception propagates.
C4_ScopeExitDisconnectsOnce ==
    [][ /\ (scope = "outside" /\ scope' = "body") =>
                (lastOp' = "__enter__" /\ lastError' = "None" /\ is_connected')
        /\ lastOp' = "__exit__" =>
                /\ scope = "body" /\ scope' = "outside"
                /\ lastInvoked' = <<"disconnect">>
                /\ lastCalls' = (IF connection # NoHandle
                                 THEN <<CloseCall(connection)>> ELSE <<>>)
                /\ connection' = NoHandle
                /\ ~is_connected'
                /\ lastError' = lastInput'.bodyExc ]_vars

C4_Witness ==
    /\ lastOp = "__exit__"
    /\ lastInput.bodyExc = "ValueError"
    /\ lastError = "ValueError"
    /\ Len(lastCalls) = 1
    /\ connection = NoHandle

\* C5: at any time at most one native connection opened by the session is
\* open (opened and not yet closed).
C5_AtMostOneOpenConnection == Cardinality(OpenConnections) <= 1

\* C6: disconnect without a handle does nothing (no driver call, no error, no
\* change); disconnect with a handle closes it once and clears it; so a
\* second disconnect adds nothing to the first.
C6_DisconnectIdempotent ==
    [][ lastOp' = "disconnect" =>
            /\ lastError' = "None"
            /\ connection' = NoHandle
            /\ connection = NoHandle =>
                    /\ lastCalls' = <<>>
                    /\ lastLog' = <<>>
                    /\ UNCHANGED <<connection, opened, closed>>
            /\ connection # NoHandle =>
                    /\ lastCalls' = <<CloseCall(connection)>>
                    /\ closed' = closed \cup {connection}
                    /\ opened' = opened
            /\ LET again == DisconnectEffect(connection') IN
                    /\ again.calls = <<>>
                    /\ again.connection = connection'
                    /\ again.newClosed = {}
                    /\ again.error = "None" ]_vars

C6_Witness ==
    /\ lastOp = "disconnect"
    /\ lastCalls = <<>>
    /\ lastError = "None"
    /\ connection = NoHandle
    /\ opened # {}
    /\ opened \subseteq closed

\* the driver call named by lastInput.failAt was made, so the driver raised there
DriverRaised == \E i \in 1..Len(lastCalls) : lastCalls[i].fn = lastInput.failAt

AuthenticationWords == {"authentication", "Authentication", "AUTHENTICATION"}

MentionsAuthentication(msg) == \E i \in 1..Len(msg) : msg[i] \in AuthenticationWords

\* C7: a failed driver connect reaches the caller as AuthenticationError when
\* the driver's DatabaseError mentions authentication, and otherwise (another
\* DatabaseError, or any other exception) as SnowflakeConnectionError carrying
\* the original message; never as anything else.
C7_ConnectFailureClassified ==
    (lastOp \in {"connect", "__enter__"} /\ lastInput.exc # NoException) =>
        /\ lastCalls = <<ConnectCall(config)>>
        /\ lastError \in {"AuthenticationError", "SnowflakeConnectionError"}
        /\ lastError = "AuthenticationError" <=>
                (/\ lastInput.exc.cls \in {"DatabaseError", "ProgrammingError",
                                           "OperationalError"}
                 /\ MentionsAuthentication(lastInput.exc.msg))
        /\ Contains(lastMessage, lastInput.exc.msg)

C7_Witness ==
    /\ lastOp = "connect"
    /\ lastInput.exc.cls = "OperationalError"
    /\ "AUTHENTICATION" \in Range(lastInput.exc.msg)
    /\ lastError = "AuthenticationError"

\* C8: on a connected session, a failure of cursor(), execute(), fetchall() or
\* cursor.close(), of whatever exception class, reaches the caller of
\* call_stored_procedure / execute_query as StoredProcedureError; an execution
\* that reached the driver raises nothing else.
C8_ExecutionFailureIsStoredProcedureError ==
    (lastOp \in ExecOps /\ lastCalls # <<>>) =>
        /\ DriverRaised => lastError = "StoredProcedureError"
        /\ lastError \in {"None", "StoredProcedureError"}

C8_Witness ==
    /\ lastOp = "execute_query"
    /\ lastInput.failAt = "cursor.close"
    /\ lastInput.exc.cls = "TypeError"
    /\ Len(lastCalls) = 4
    /\ lastError = "StoredProcedureError"

\* C9 as stated: the message of every StoredProcedureError contains the
\* underlying cause text and the identifier of what failed: the procedure name
\* for call_stored_procedure, the query for execute_query.
C9_MessageCarriesCauseAndIdentifier ==
    (lastOp \in ExecOps /\ lastError = "StoredProcedureError") =>
        /\ Contains(lastMessage, lastInput.exc.msg)
        /\ lastOp = "call_stored_procedure" => Contains(lastMessage, <<lastInput.name>>)
        /\ lastOp = "execute_query" => Contains(lastMessage, lastInput.query)

\* C9 amended: the message of every StoredProcedureError contains the
\* underlying cause text; for call_stored_procedure it also contains the
\* procedure name; for execute_query it is a fixed prefix followed by the
\* cause text, with no part taken from the query.
C9_MessageCarriesCauseAndProcedureName ==
    (lastOp \in ExecOps /\ lastError = "StoredProcedureError") =>
        /\ lastInput.exc.msg # <<>>
        /\ Contains(lastMessage, lastInput.exc.msg)
        /\ lastOp = "call_stored_procedure" => Contains(lastMessage, <<lastInput.name>>)
        /\ lastOp = "execute_query" =>
                lastMessage \in { <<"Error executing query:">> \o lastInput.exc.msg,
                                  <<"Unexpected error executing query:">>
                                      \o lastInput.exc.msg }

C9_Witness ==
    /\ lastOp = "call_stored_procedure"
    /\ lastInput.name = "non_existent_procedure"
    /\ lastInput.failAt = "execute"
    /\ lastError = "StoredProcedureError"
    /\ lastMessage = <<"Error executing stored procedure", "non_existent_procedure", ":",
                       "does", "not", "exist">>

\* positions of column c in the column list
PositionsOf(columns, c) == {i \in 1..Len(columns) : columns[i] = c}

LastPosition(columns, c) ==
    CHOOSE i \in PositionsOf(columns, c) : \A k \in PositionsOf(columns, c) : k <= i

FirstPosition(columns, c) ==
    CHOOSE i \in PositionsOf(columns, c) : \A k \in PositionsOf(columns, c) : i <= k

ColumnNames(description) == [i \in 1..Len(description) |-> description[i][1]]

\* C10 as stated: with column metadata [c1..cn] and rows r1..rm the result is
\* the m records in row order with record j mapping ci to the i-th value of
\* rj; without column metadata the result is the empty sequence; an execution
\* that returns always returns a sequence.
C10_RecordMapsEachColumnToItsValue ==
    (lastOp \in ExecOps /\ lastError = "None") =>
        LET cols == ColumnNames(lastInput.description)
            rows == lastInput.rows
            res  == lastResult.value
        IN  /\ lastResult.kind = "list"
            /\ cols = <<>> => res = <<>>
            /\ cols # <<>> =>
                /\ Len(res) = Len(rows)
                /\ \A j \in 1..Len(rows) : \A i \in 1..Len(cols) :
                        res[j].map[cols[i]] = rows[j][i]

\* C10 amended: as stated, except that record j maps each column name c to
\* the value of rj at the last position where c occurs in [c1..cn] (the i-th
\* value when the names are distinct), its keys being the distinct names in
\* order of first appearance.
C10_RecordMapsEachNameToLastValue ==
    (lastOp \in ExecOps /\ lastError = "None") =>
        LET cols == ColumnNames(lastInput.description)
            rows == lastInput.rows
            res  == lastResult.value
        IN  /\ lastResult.kind = "list"
            /\ cols = <<>> => res = <<>>
            /\ cols # <<>> =>
                /\ Len(res) = Len(rows)
                /\ \A j \in 1..Len(rows) :
                    /\ DOMAIN res[j].map = Range(cols)
                    /\ \A c \in Range(cols) :
                            res[j].map[c] = rows[j][LastPosition(cols, c)]
                    /\ Range(res[j].keys) = Range(cols)
                    /\ Len(res[j].keys) = Cardinality(Range(cols))
                    /\ \A a, b \in 1..Len(res[j].keys) :
                            a < b => FirstPosition(cols, res[j].keys[a])
                                        < FirstPosition(cols, res[j].keys[b])

C10_Witness ==
    /\ lastOp = "execute_query"
    /\ lastError = "None"
    /\ ColumnNames(lastInput.description) = <<"B", "A", "B">>
    /\ Len(lastResult.value) = 1
    /\ lastResult.value[1].keys = <<"B", "A">>
    /\ lastResult.value[1].map["B"] = "NULL"
    /\ lastResult.value[1].map["A"] = "x"

\* the driver calls of the last operation to the function fn
CallsTo(fn) == {i \in 1..Len(lastCalls) : lastCalls[i].fn = fn}

CountOf(seq, x) == Cardinality({i \in 1..Len(seq) : seq[i] = x})

\* C11: call_stored_procedure builds a CALL with one %s placeholder per
\* parameter and hands the driver the parameter values in the same order,
\* unmodified (null included); with parameters absent or empty it issues a
\* zero-argument CALL with no bound values. Placeholders = bound values =
\* length of the list.
C11_OnePlaceholderPerParameter ==
    (lastOp = "call_stored_procedure") =>
        \A i \in CallsTo("execute") :
            LET e == lastCalls[i]
                given == lastInput.parameters
                n == IF given.present THEN Len(given.list) ELSE 0
            IN  /\ CountOf(e.stmt, "%s") = n
                /\ Len(e.binds.list) = n
                /\ e.binds.list = given.list
                /\ e.binds.present = (n > 0)
                /\ e.stmt[1] = "CALL" /\ e.stmt[2] = lastInput.name
                /\ n = 0 => e.stmt = <<"CALL", lastInput.name, "(", ")">>
                /\ n > 0 => CountOf(e.stmt, ",") = n - 1

C11_Witness ==
    /\ lastOp = "call_stored_procedure"
    /\ lastInput.parameters.list = <<"hello", "NULL">>
    /\ Len(lastCalls) >= 2
    /\ lastCalls[2].fn = "execute"
    /\ lastCalls[2].stmt = <<"CALL", lastInput.name, "(", "%s", ",", "%s", ")">>
    /\ lastCalls[2].binds.list = <<"hello", "NULL">>

\* C12: no retry and no automatic reconnection: a connect makes exactly one
\* driver connect attempt, an execution issues at most one driver execute and
\* never a driver connect, only a connect (directly or through __enter__)
\* takes the session from not connected to connected, and a failure of the
\* driver is raised to the caller after that single attempt.
C12_NoRetryNoReconnect ==
    [][ /\ lastOp' \in {"connect", "__enter__"} =>
                /\ Len(lastCalls') = 1
                /\ lastCalls'[1].fn = "connect"
                /\ lastInput'.exc # NoException =>
                        (lastError' # "None" /\ connection' = connection)
        /\ lastOp' \in ExecOps =>
                /\ Cardinality({i \in 1..Len(lastCalls') : lastCalls'[i].fn = "execute"}) <= 1
                /\ \A i \in 1..Len(lastCalls') : lastCalls'[i].fn # "connect"
                /\ (\E i \in 1..Len(lastCalls') : lastCalls'[i].fn = lastInput'.failAt)
                        => lastError' # "None"
        /\ lastOp' \notin {"connect", "__enter__"} =>
                /\ opened' = opened
                /\ ~(~is_connected /\ is_connected') ]_vars

C12_Witness ==
    /\ lastOp = "call_stored_procedure"
    /\ lastInput.failAt = "execute"
    /\ lastError = "StoredProcedureError"
    /\ Cardinality(CallsTo("execute")) = 1
    /\ Cardinality(opened) = 1

\* C13: is_connected is true exactly when the session holds a handle and the
\* native connection behind it is open; it is false with no handle and false
\* with a handle whose transport was closed underneath.
C13_IsConnectedIffOpenHandle ==
    /\ is_connected <=> (connection # NoHandle /\ connection \in OpenConnections)
    /\ connection = NoHandle => ~is_connected
    /\ (connection # NoHandle /\ connection \in closed) => ~is_connected
    /\ connection # NoHandle => connection \in opened

C13_Witness ==
    /\ lastOp = "transport_closed"
    /\ connection # NoHandle
    /\ connection \in closed
    /\ ~is_connected

\* C14: no log line emitted by connect, disconnect, call_stored_procedure or
\* execute_query contains the token the client was constructed with.
C14_TokenNeverLogged ==
    Truthy(config.token) =>
        \A i \in 1..Len(lastLog) : config.token \notin Range(lastLog[i])

C14_Witness ==
    /\ lastOp = "connect"
    /\ config.token = "pat-secret"
    /\ lastCalls[1].params["token"] = "pat-secret"
    /\ Len(lastLog) = 2
    /\ lastLog[1] = <<"Connecting to Snowflake account:", "acct">>

\* C19: a record returned by execute_query can be read by zero-based column
\* position: result[0][i] is the value of the i-th column of the first row
\* and row[1] is the second column of any row.
C19_RecordReadableByPosition ==
    (lastOp = "execute_query" /\ lastError = "None" /\ lastResult.value # <<>>) =>
        \A j \in 1..Len(lastResult.value) :
            \A i \in 1..Len(lastInput.description) :
                DictGet(lastResult.value[j], PositionKey(i - 1))
                    = [raised |-> "None", value |-> lastInput.rows[j][i]]

\* C20 as stated: a failed connect leaves the handle unchanged (from a
\* disconnected session: disconnected with no handle); call_stored_procedure
\* and execute_query, failing or not, leave the session with the same handle
\* and the same open connections.
C20_FailureLeavesHandle ==
    [][ /\ (lastOp' \in {"connect", "__enter__"} /\ lastError' # "None") =>
                /\ UNCHANGED <<connection, opened, closed>>
                /\ ~is_connected => (~is_connected' /\ connection' = NoHandle)
        /\ lastOp' \in ExecOps =>
                /\ UNCHANGED <<connection, opened, closed>>
                /\ is_connected' = is_connected ]_vars

\* C20 amended: a failed connect leaves the handle unchanged: from a
\* disconnected session it leaves the session disconnected with the handle it
\* had (none, or the one whose transport is closed); the rest as stated.
C20_FailureLeavesHandleAsItWas ==
    [][ /\ (lastOp' \in {"connect", "__enter__"} /\ lastError' # "None") =>
                /\ UNCHANGED <<connection, opened, closed>>
                /\ ~is_connected => ~is_connected'
                /\ connection = NoHandle => connection' = NoHandle
        /\ lastOp' \in ExecOps =>
                /\ UNCHANGED <<connection, opened, closed>>
                /\ is_connected' = is_connected ]_vars

C20_Witness ==
    /\ lastOp = "connect"
    /\ lastError = "SnowflakeConnectionError"
    /\ connection # NoHandle
    /\ is_closed(connection)
    /\ opened = {connection}

----------------------------------------------------------------------------
(* Command-line claims (specification SpecCLI) *)

ClientCreated == "SnowflakeClient" \in Range(cli.events)

\* the option is given by neither a non-empty flag nor a non-empty variable
NotSupplied(k) == ~ValueTruthy(cli.args[k]) /\ ~ValueTruthy(cli.env[EnvVarOf(k)])

\* C15: when account, username or token is supplied by neither a non-empty
\* flag nor a non-empty environment variable, the run ends with exit code 1
\* and a configuration-error message that names the missing options, and it
\* has created no client and attempted no connection.
C15_MissingRequiredExitsOne ==
    (cli.pc # "main" /\ \E k \in Range(required_params) : NotSupplied(k)) =>
        /\ cli.pc = "exited"
        /\ cli.exit = 1
        /\ cli.raised = "ConfigurationError"
        /\ cli.label = "Configuration error:"
        /\ \A k \in Range(required_params) : NotSupplied(k) <=> k \in Range(cli.message)
        /\ ~ClientCreated
        /\ "connect" \notin Range(cli.events)
        /\ config = NoClient
        /\ connection = NoHandle /\ opened = {}
        /\ lastOp = "__init__" /\ lastCalls = <<>>

C15_Witness ==
    /\ cli.pc = "exited"
    /\ cli.exit = 1
    /\ cli.args.token = ""
    /\ cli.env["SNOWFLAKE_TOKEN"] = ""
    /\ cli.env["SNOWFLAKE_ACCOUNT"] = "env-acct"
    /\ cli.message[2] = "token"

\* the run delivered its output: printed it once, or left it as the whole
\* content of the file
OutputDelivered ==
    IF ValueTruthy(cli.args.file)
    THEN cli.file = FileWith(<<cli.output>>) /\ cli.stdout = <<>>
    ELSE cli.stdout = <<cli.output>>

\* every stage of the run succeeded
AllSucceeded ==
    /\ missing_params(cli.config) = <<>>
    /\ ClientCreated
    /\ Cardinality(opened) = 1
    /\ "execute" \in Range(cli.events)
    /\ cli.output = FormatOutput(cli.args.output, cli.results)
    /\ OutputDelivered
    /\ "disconnect" \in Range(cli.events)
    /\ connection = NoHandle /\ closed = opened

ErrorKinds ==
    {"ConfigurationError", "AuthenticationError", "SnowflakeConnectionError",
     "StoredProcedureError", "OSError"}

\* C16: a run ends with exit code 0 exactly when configuration, connect,
\* execution, formatting, writing and disconnect all succeeded, and with
\* exit code 1 when any kind of error was raised; an error, once raised in
\* a step, is never dropped and nothing is executed or written after it.
C16_ExitCodes ==
    [][ /\ cli'.pc = "exited" =>
               /\ cli'.exit \in {0, 1}
               /\ cli'.exit = 0 <=> AllSucceeded'
               /\ cli'.exit = 0 <=> cli'.raised = "None"
               /\ cli'.raised # "None" => cli'.raised \in ErrorKinds
        /\ (lastOp' \in {"__enter__", "call_stored_procedure", "execute_query"}
              /\ lastError' # "None") => cli'.raised = lastError'
        /\ cli.raised # "None" =>
               /\ cli'.raised = cli.raised
               /\ cli'.pc \in {cli.pc, "exited"}
               /\ cli'.stdout = cli.stdout /\ cli'.file = cli.file
               /\ cli'.results = cli.results ]_vars

C16_Witness ==
    /\ cli.pc = "exited"
    /\ cli.exit = 0
    /\ cli.args.file = "out.txt"
    /\ cli.file = FileWith(<<cli.output>>)
    /\ cli.output.format = "table"
    /\ cli.results # <<>>

\* C17 as stated: the client gets the flag when the flag is given, otherwise
\* the environment variable when it is given, otherwise nothing.
C17_FlagWhenSetElseEnv ==
    ClientCreated =>
        \A k \in Range(ConfigKeys) :
            config[k] = IF cli.args[k] # PyNone THEN cli.args[k]
                        ELSE IF cli.env[EnvVarOf(k)] # PyNone THEN cli.env[EnvVarOf(k)]
                        ELSE ""

\* C17 (amended): the client gets the flag when the flag is given and not
\* empty, otherwise the environment variable when it is given and not empty,
\* otherwise nothing; a non-empty flag always overrides the environment.
C17_NonEmptyFlagElseNonEmptyEnv ==
    ClientCreated =>
        \A k \in Range(ConfigKeys) :
            /\ config[k] = IF ValueTruthy(cli.args[k]) THEN cli.args[k]
                           ELSE IF ValueTruthy(cli.env[EnvVarOf(k)])
                                THEN cli.env[EnvVarOf(k)]
                                ELSE ""
            /\ k \in DOMAIN cli.config <=> ~NotSupplied(k)
            /\ ValueTruthy(cli.args[k]) => config[k] = cli.args[k]

C17_Witness ==
    /\ ClientCreated
    /\ cli.args.role = "ARG_ROLE"
    /\ cli.env["SNOWFLAKE_ROLE"] = "ENV_ROLE"
    /\ config.role = "ARG_ROLE"
    /\ config.warehouse = "ENV_WH"

CommaCount(s) == Cardinality({i \in 1..Len(s) : s[i] = ","})

\* position of the k-th comma of s; 0 before the first, Len(s) + 1 after the last
CommaAt(s, k) ==
    IF k = 0 THEN 0
    ELSE IF k > CommaCount(s) THEN Len(s) + 1
    ELSE CHOOSE i \in 1..Len(s) :
            s[i] = "," /\ Cardinality({j \in 1..i : s[j] = ","}) = k

TokenAt(s, k) == SubSeq(s, CommaAt(s, k - 1) + 1, CommaAt(s, k) - 1)

\* t without the whitespace at its two ends
Trimmed(t) ==
    CHOOSE u \in {SubSeq(t, a, b) : a \in 1..(Len(t) + 1), b \in 0..Len(t)} :
        \E pre, post \in {w \in {SubSeq(t, a, b) : a \in 1..(Len(t) + 1), b \in 0..Len(t)} :
                            \A i \in 1..Len(w) : w[i] \in Whitespace} :
            /\ t = pre \o u \o post
            /\ u # <<>> => (u[1] \notin Whitespace /\ u[Len(u)] \notin Whitespace)

\* C18: the parameters the command line passes to call_stored_procedure are
\* none when --parameters is absent or empty; otherwise a list with one
\* element per comma-separated token, in order, each the JSON value of the
\* trimmed token when it is JSON and the trimmed token as a string when it
\* is not; "hello,123,true" gives ["hello", 123, true].
C18_ParseParameters ==
    ("execute" \in Range(cli.events) /\ ~TextTruthy(cli.args.query)) =>
        LET p == cli.args.parameters
            r == cli.parameters
        IN /\ lastOp = "call_stored_procedure" => lastInput.parameters = r
           /\ (~p.set \/ p.text = <<>>) => r = NoBinds
           /\ (p.set /\ p.text # <<>>) =>
                /\ r.present
                /\ Len(r.list) = CommaCount(p.text) + 1
                /\ \A k \in 1..Len(r.list) :
                      LET token == Trimmed(TokenAt(p.text, k))
                      IN r.list[k] = IF JsonLoads(token).raised = "None"
                                     THEN JsonLoads(token).value
                                     ELSE PyStr(token)
           /\ p.text = Hello123True =>
                r.list = << PyStr(<<"h", "e", "l", "l", "o">>),
                            [type |-> "int", text |-> <<"1", "2", "3">>],
                            [type |-> "bool", text |-> <<"t", "r", "u", "e">>] >>

C18_Witness ==
    /\ lastOp = "call_stored_procedure"
    /\ lastError = "None"
    /\ cli.args.parameters = Text(Hello123True)
    /\ Len(lastInput.parameters.list) = 3
    /\ lastCalls[2].stmt = <<"CALL", "sp_example", "(", "%s", ",", "%s", ",", "%s", ")">>
    /\ lastCalls[2].binds = lastInput.parameters

----------------------------------------------------------------------------
(* Cursors *)

\* the last operation obtained a cursor: cursor() was called and returned
CursorOpened ==
    /\ lastOp \in ExecOps
    /\ CallsTo("cursor") # {}
    /\ lastInput.failAt # "cursor"

\* C21: every cursor opened by call_stored_procedure or execute_query has
\* been closed when the operation finishes, whether it returned its records
\* or raised StoredProcedureError: each cursor() that returned is followed
\* by a cursor.close() on the same connection.
C21_EveryCursorClosed ==
    CursorOpened =>
        \A i \in CallsTo("cursor") :
            \E j \in CallsTo("cursor.close") :
                j > i /\ lastCalls[j].target = lastCalls[i].target

----------------------------------------------------------------------------
(* Command-line output *)

\* the errors of configuration, connect and execution
OperationErrors ==
    {"ConfigurationError", "AuthenticationError", "SnowflakeConnectionError",
     "StoredProcedureError"}

OutputEvents == {"print", "file_truncated", "file_written", "open_failed"}

PositionIn(seq, x) == CHOOSE i \in 1..Len(seq) : seq[i] = x

\* C22: the command line produces output only after the operation
\* succeeded.  Stdout and the file named by --file change only in the step
\* that follows a successful execution, while the session still holds its
\* connection and before disconnect; a run in which configuration, connect
\* or execution failed ends with nothing printed and without having opened
\* the file; a successful run with --file leaves the formatted output as
\* the whole content of the file, written once, before the disconnect.
C22_OutputOnlyAfterSuccess ==
    [][ /\ (cli'.file # cli.file \/ cli'.stdout # cli.stdout) =>
               /\ cli.pc = "write" /\ cli.raised = "None"
               /\ cli'.raised \notin OperationErrors
               /\ "execute" \in Range(cli.events)
               /\ "disconnect" \notin Range(cli'.events)
               /\ scope = "body" /\ connection # NoHandle /\ connection' = connection
               /\ cli'.output = FormatOutput(cli.args.output, cli.results)
        /\ cli.raised \in OperationErrors =>
               /\ cli'.raised = cli.raised
               /\ cli'.file = cli.file /\ cli'.stdout = cli.stdout
        /\ (cli'.pc = "exited" /\ cli'.raised \in OperationErrors) =>
               /\ cli'.stdout = <<>>
               /\ Range(cli'.events) \cap OutputEvents = {}
        /\ (cli'.pc = "exited" /\ cli'.exit = 0 /\ ValueTruthy(cli.args.file)) =>
               /\ cli'.file = FileWith(<<cli'.output>>)
               /\ cli'.stdout = <<>>
               /\ CountOf(cli'.events, "file_truncated") = 1
               /\ CountOf(cli'.events, "file_written") = 1
               /\ PositionIn(cli'.events, "file_written")
                      < PositionIn(cli'.events, "disconnect")
        /\ (cli'.pc = "exited" /\ cli'.exit = 0 /\ ~ValueTruthy(cli.args.file)) =>
               /\ cli'.stdout = <<cli'.output>>
               /\ cli'.file = cli.file
               /\ PositionIn(cli'.events, "print")
                      < PositionIn(cli'.events, "disconnect") ]_vars

C22_Witness ==
    /\ cli.pc = "exited"
    /\ cli.exit = 0
    /\ cli.args.file = "out.csv"
    /\ cli.output.format = "csv"
    /\ cli.file = FileWith(<<cli.output>>)
    /\ cli.file # OldFile
    /\ cli.events = <<"SnowflakeClient", "connect", "execute",
                      "file_truncated", "file_written", "disconnect">>

====
